---- MODULE Spec2Model ----
(***************************************************************************)
(* A model of parselglossy's validation core: the type system of          *)
(* parselglossy/types.py (type_matches, type_fixers, rec_typenade) and the *)
(* node validator and predicate checker of parselglossy/validate.py       *)
(* (type_matches, validate_node, check_predicates_node).                   *)
(*                                                                         *)
(* Python values are tagged pairs <<type name, payload>>:                  *)
(*   <<"bool", TRUE>>  <<"int", 1>>  <<"str", "a">>  <<"NoneType", 0>>     *)
(*   <<"float", 15>>          a float, payload in tenths (1.5)             *)
(*   <<"complex", <<0, 1>>>>  a complex, integral real and imaginary part  *)
(*   <<"list", <<v1, ..., vn>>>>                                           *)
(*   <<"dict", <<<<k1, v1>>, ..., <<kn, vn>>>>>>  items in insertion order *)
(* Template dictionaries, whose key order the code never reads, are TLA+   *)
(* records: 'keywords' in template_dict is "keywords" \in DOMAIN tpl.      *)
(***************************************************************************)
EXTENDS Integers, Sequences, FiniteSets, TLC

VARIABLES scenario, pc, op, value, expected_type, template_dict, input_dict,
          input0, merged, types, ret

vars == <<scenario, pc, op, value, expected_type, template_dict, input_dict,
          input0, merged, types, ret>>

(* Bounds of the model. *)
MaxLen == 2
MaxDepth == 1

(***************************************************************************)
(* Python values                                                           *)
(***************************************************************************)
PyNone == <<"NoneType", 0>>
PyBool(b) == <<"bool", b>>
PyInt(n) == <<"int", n>>
PyStr(s) == <<"str", s>>
PyFloat(tenths) == <<"float", tenths>>
PyComplex(re, im) == <<"complex", <<re, im>> >>
PyList(s) == <<"list", s>>
PyDict(items) == <<"dict", items>>

(* type(v).__name__ *)
TypeName(v) == v[1]
Payload(v) == v[2]

RECURSIVE SeqsUpTo(_, _)
SeqsUpTo(S, n) ==
    IF n = 0 THEN {<<>>}
    ELSE LET shorter == SeqsUpTo(S, n - 1)
         IN  shorter \cup {Append(s, x) : s \in {t \in shorter : Len(t) = n - 1}, x \in S}

(***************************************************************************)
(* Dictionaries with insertion order                                       *)
(***************************************************************************)
Items(d) == Payload(d)
Keys(d) == [i \in DOMAIN Items(d) |-> Items(d)[i][1]]
KeySet(d) == {Items(d)[i][1] : i \in DOMAIN Items(d)}
Has(d, k) == k \in KeySet(d)
Get(d, k) == Items(d)[CHOOSE i \in DOMAIN Items(d) : Items(d)[i][1] = k][2]
(* d[k] = v: an existing key keeps its position, a new key goes last *)
Put(d, k, v) ==
    IF Has(d, k)
    THEN PyDict([i \in DOMAIN Items(d) |->
                    IF Items(d)[i][1] = k THEN <<k, v>> ELSE Items(d)[i]])
    ELSE PyDict(Append(Items(d), <<k, v>>))

SeqToSet(s) == {s[i] : i \in DOMAIN s}

(* the elements of sequence s, in order, that are in set S *)
Restrict(s, S) == SelectSeq(s, LAMBDA x : x \in S)

(***************************************************************************)
(* Outcomes of a call: a returned value or a raised exception              *)
(***************************************************************************)
Return(v) == [exc |-> "none", val |-> v]
Raise(e, m) == [exc |-> e, msg |-> m]
Returned(r) == r.exc = "none"

(***************************************************************************)
(* types.py: the type tags                                                 *)
(***************************************************************************)
allowed_scalar_types == <<"str", "int", "float", "complex", "bool">>

(* "List[{}]".format(t) *)
ListTag(t) == "List[" \o t \o "]"

allowed_list_types == [i \in DOMAIN allowed_scalar_types |-> ListTag(allowed_scalar_types[i])]

(* a table that forgets the list tags *)
allowed_types_without_lists == allowed_scalar_types

allowed_types == allowed_scalar_types \o allowed_list_types

(* The strings of \w+ that the tags of the model are built from. *)
WordStrings == SeqToSet(allowed_scalar_types) \cup {"list", "fooffa", "Int", "NoneType"}

(* re.search(r"^List\[(\w+)\]$", s): <<>> for no match, else <<group(1)>> *)
ReSearchList(s) ==
    IF \E w \in WordStrings : s = ListTag(w)
    THEN <<CHOOSE w \in WordStrings : s = ListTag(w)>>
    ELSE <<>>

type_check_scalar(v, t) == TypeName(v) = t

type_check_list(v, t) ==
    IF TypeName(v) = "list"
    THEN \A i \in DOMAIN Payload(v) : type_check_scalar(Payload(v)[i], t)
    ELSE FALSE

(* types.py type_matches *)
types_type_matches(v, t) ==
    IF t \notin SeqToSet(allowed_types)
    THEN Raise("ValueError", <<"could not recognize expected_type", t>>)
    ELSE LET expected_type_is_list == ReSearchList(t)
         IN  IF expected_type_is_list # <<>>
             THEN Return(type_check_list(v, expected_type_is_list[1]))
             ELSE Return(type_check_scalar(v, t))

(* the for loop of validate.py type_matches over value[i..]: the first
   element of another type returns False *)
(* a loop that looks at the first element only *)
ElementsLoopFirstOnly(elems, i, list_element_type) ==
    IF i > Len(elems) THEN TRUE ELSE TypeName(elems[i]) = list_element_type

RECURSIVE ElementsLoop(_, _, _)
ElementsLoop(elems, i, list_element_type) ==
    IF i > Len(elems) THEN TRUE
    ELSE IF ~(TypeName(elems[i]) = list_element_type) THEN FALSE
    ELSE ElementsLoop(elems, i + 1, list_element_type)

(* validate.py type_matches *)
validate_type_matches(v, t) ==
    LET allowed_basic_types == <<"str", "int", "float", "complex", "bool">>
        allowed_list == [i \in DOMAIN allowed_basic_types |-> ListTag(allowed_basic_types[i])]
        allowed == allowed_basic_types \o allowed_list
    IN  IF t \notin SeqToSet(allowed)
        THEN Raise("ValueError", <<"could not recognize expected_type", t>>)
        ELSE IF ReSearchList(t) # <<>>
             THEN IF ~(TypeName(v) = "list")
                  THEN Return(FALSE)
                  ELSE Return(ElementsLoop(Payload(v), 1, ReSearchList(t)[1]))
             ELSE Return(TypeName(v) = t)

(***************************************************************************)
(* types.py: type_fixers                                                   *)
(***************************************************************************)
Digits(n) == ToString(n)

(* str(v) for a scalar v *)
StrOf(v) ==
    CASE TypeName(v) = "str" -> Payload(v)
      [] TypeName(v) = "bool" -> IF Payload(v) THEN "True" ELSE "False"
      [] TypeName(v) = "int" -> Digits(Payload(v))
      [] TypeName(v) = "float" ->
            Digits(Payload(v) \div 10) \o "." \o Digits(Payload(v) % 10)
      [] TypeName(v) = "complex" ->
            IF Payload(v)[1] = 0
            THEN Digits(Payload(v)[2]) \o "j"
            ELSE "(" \o Digits(Payload(v)[1]) \o "+" \o Digits(Payload(v)[2]) \o "j)"
      [] TypeName(v) = "NoneType" -> "None"

(* bool(v) *)
Truthy(v) ==
    CASE TypeName(v) = "bool" -> Payload(v)
      [] TypeName(v) \in {"int", "float"} -> Payload(v) # 0
      [] TypeName(v) = "complex" -> Payload(v) # <<0, 0>>
      [] TypeName(v) = "str" -> Payload(v) # ""
      [] TypeName(v) \in {"list", "dict"} -> Payload(v) # <<>>
      [] TypeName(v) = "NoneType" -> FALSE

(* The constructor named ctor applied to v: bool(v), complex(v), float(v),
   int(v), str(v), for the arguments that need no parsing. *)
Construct(ctor, v) ==
    CASE ctor = "str" -> PyStr(StrOf(v))
      [] ctor = "bool" -> PyBool(Truthy(v))
      [] ctor = "int" /\ TypeName(v) = "int" -> v
      [] ctor = "int" /\ TypeName(v) = "bool" -> PyInt(IF Payload(v) THEN 1 ELSE 0)
      [] ctor = "float" /\ TypeName(v) = "float" -> v
      [] ctor = "float" /\ TypeName(v) = "int" -> PyFloat(10 * Payload(v))
      [] ctor = "complex" /\ TypeName(v) = "complex" -> v
      [] ctor = "complex" /\ TypeName(v) = "int" -> PyComplex(Payload(v), 0)

(* the items of the dict literal, in insertion order *)
type_fixer_items == <<"bool", "complex", "float", "int", "str">>

(* Every lambda of the comprehension reads the comprehension's one variable v
   when it is called, after the loop has ended: v is then the last item. *)
ComprehensionV == type_fixer_items[Len(type_fixer_items)]

(* type_fixers[tag](v) *)
type_fixers(tag, v) ==
    IF tag \in SeqToSet(type_fixer_items)
    THEN Construct(tag, v)
    ELSE PyList([i \in DOMAIN Payload(v) |-> Construct(ComprehensionV, Payload(v)[i])])

(* Python's == on values *)
IsNumber(v) == TypeName(v) \in {"bool", "int", "float", "complex"}
Num(v) ==
    CASE TypeName(v) = "bool" -> <<IF Payload(v) THEN 10 ELSE 0, 0>>
      [] TypeName(v) = "int" -> <<10 * Payload(v), 0>>
      [] TypeName(v) = "float" -> <<Payload(v), 0>>
      [] TypeName(v) = "complex" -> <<10 * Payload(v)[1], 10 * Payload(v)[2]>>

RECURSIVE PyEq(_, _)
PyEq(x, y) ==
    IF IsNumber(x) /\ IsNumber(y) THEN Num(x) = Num(y)
    ELSE IF TypeName(x) # TypeName(y) THEN FALSE
    ELSE IF TypeName(x) = "list"
    THEN /\ Len(Payload(x)) = Len(Payload(y))
         /\ \A i \in DOMAIN Payload(x) : PyEq(Payload(x)[i], Payload(y)[i])
    ELSE IF TypeName(x) = "dict"
    THEN /\ KeySet(x) = KeySet(y)
         /\ \A k \in KeySet(x) : PyEq(Get(x, k), Get(y, k))
    ELSE x = y

(***************************************************************************)
(* validate.py: validate_node                                              *)
(***************************************************************************)
(* s.strip() == '' *)
StripIsEmpty(s) == s \in {"", " ", "  "}

(* list(filter(lambda x: x[field] == name, entries))[0] *)
FirstWith(entries, field, name) ==
    entries[CHOOSE i \in DOMAIN entries :
                /\ entries[i][field] = name
                /\ \A j \in 1..(i - 1) : entries[j][field] # name]

(* lines 83-84 (and 169-170): the keys of the node whose value is a dict,
   and the other keys, both in the node's key order *)
(* a partition that takes no value for a section *)
input_sections_none(node) == <<>>

input_sections(node) ==
    SelectSeq(Keys(node), LAMBDA x : TypeName(Get(node, x)) = "dict")
input_keywords(node) ==
    SelectSeq(Keys(node), LAMBDA x : x \notin SeqToSet(input_sections(node)))

(* lines 86-89 (and 172-175) *)
template_sections(template) ==
    IF "sections" \in DOMAIN template
    THEN [i \in DOMAIN template.sections |-> template.sections[i].section]
    ELSE <<>>

(* lines 91-94 *)
template_keywords(template) ==
    IF "keywords" \in DOMAIN template
    THEN [i \in DOMAIN template.keywords |-> template.keywords[i].keyword]
    ELSE <<>>

(* A call of validate_node ends with the mapping it was given in the state
   node (the function assigns into input_dict itself), and returns that very
   mapping when exc is "none". *)
Done(node) == [exc |-> "none", node |-> node]
Fail(e, m, node) == [exc |-> e, msg |-> m, node |-> node]

(* lines 118-122: the type of each input keyword, in the input's order *)
RECURSIVE TypeLoop(_, _, _, _)
TypeLoop(node, template, keywords, i) ==
    IF i > Len(keywords) THEN Done(node)
    ELSE LET keyword == keywords[i]
             template_keyword == FirstWith(template.keywords, "keyword", keyword)
         IN  IF "type" \notin DOMAIN template_keyword
             THEN Fail("KeyError", <<"type">>, node)
             ELSE LET type == template_keyword.type
                      m == validate_type_matches(Get(node, keyword), type)
                  IN  IF ~Returned(m) THEN Fail(m.exc, m.msg, node)
                      ELSE IF ~m.val
                      THEN Fail("InputError",
                                <<"incorrect type for keyword", keyword, type>>, node)
                      ELSE TypeLoop(node, template, keywords, i + 1)

(* lines 125-128: the defaults of the keywords the input lacks; missing is
   the set difference in the order the set iterates *)
(* a loop that fills nothing *)
FillLoopSkip(node, template, missing, i) == Done(node)

(* a loop that fills None in place of each default *)
RECURSIVE FillLoopNone(_, _, _, _)
FillLoopNone(node, template, missing, i) ==
    IF i > Len(missing) THEN Done(node)
    ELSE FillLoopNone(Put(node, missing[i], PyNone), template, missing, i + 1)

RECURSIVE FillLoop(_, _, _, _)
FillLoop(node, template, missing, i) ==
    IF i > Len(missing) THEN Done(node)
    ELSE LET keyword == missing[i]
             template_keyword == FirstWith(template.keywords, "keyword", keyword)
         IN  IF "default" \notin DOMAIN template_keyword
             THEN Fail("KeyError", <<"default">>, node)
             ELSE FillLoop(Put(node, keyword, template_keyword.default),
                           template, missing, i + 1)

RECURSIVE validate_node(_, _, _)
RECURSIVE SectionsLoop(_, _, _, _, _)

(* lines 131-134: descend into each template section, in template order *)
SectionsLoop(node, template, sections, i, hashOrder) ==
    IF i > Len(sections) THEN Done(node)
    ELSE LET section == sections[i]
         IN  IF ~Has(node, section)
             THEN Fail("KeyError", <<section>>, node)
             ELSE LET template_section == FirstWith(template.sections, "section", section)
                      r == validate_node(Get(node, section), template_section, hashOrder)
                  IN  IF r.exc # "none"
                      THEN Fail(r.exc, r.msg, Put(node, section, r.node))
                      ELSE SectionsLoop(Put(node, section, r.node), template,
                                        sections, i + 1, hashOrder)

(* hashOrder: the order in which a set of this process iterates its strings *)
validate_node(node, template, hashOrder) ==
    IF "keywords" \notin DOMAIN template
        THEN Fail("KeyError", <<"keywords">>, node)
        ELSE
        LET keywords_no_doc ==
                SelectSeq(template.keywords,
                          LAMBDA x : \/ "documentation" \notin DOMAIN x
                                     \/ StripIsEmpty(x.documentation))
            unexpected_keywords ==
                SeqToSet(input_keywords(node)) \ SeqToSet(template_keywords(template))
            unexpected_sections ==
                SeqToSet(input_sections(node)) \ SeqToSet(template_sections(template))
            keywords_no_default ==
                SelectSeq(template.keywords, LAMBDA x : "default" \notin DOMAIN x)
            must_be_set ==
                {keywords_no_default[i].keyword : i \in DOMAIN keywords_no_default}
                    \ SeqToSet(input_keywords(node))
        IN  IF Len(keywords_no_doc) > 0
            THEN Fail("TemplateError",
                      <<"keyword(s) without any documentation",
                        [i \in DOMAIN keywords_no_doc |-> keywords_no_doc[i].keyword]>>,
                      node)
            ELSE IF unexpected_keywords # {}
            THEN Fail("InputError", <<"found unexpected keyword(s)", unexpected_keywords>>, node)
            ELSE IF unexpected_sections # {}
            THEN Fail("InputError", <<"found unexpected section(s)", unexpected_sections>>, node)
            ELSE IF must_be_set # {}
            THEN Fail("InputError", <<"the following keyword(s) must be set", must_be_set>>, node)
            ELSE
            LET typed == TypeLoop(node, template, input_keywords(node), 1)
            IN  IF typed.exc # "none" THEN typed
                ELSE
                LET missing == Restrict(hashOrder,
                                        SeqToSet(template_keywords(template))
                                            \ SeqToSet(input_keywords(node)))
                    filled == FillLoop(node, template, missing, 1)
                IN  IF filled.exc # "none" THEN filled
                    ELSE SectionsLoop(filled.node, template, template_sections(template), 1,
                                      hashOrder)

(***************************************************************************)
(* validate.py: check_predicates_node                                      *)
(***************************************************************************)
(* Python's < and > are defined between bool, int and float *)
IsOrdered(v) == TypeName(v) \in {"bool", "int", "float"}

(* eval(predicate) with the local name value bound to v, for the predicate
   texts of the model *)
PyEval(predicate, v) ==
    CASE predicate = "value > 0" ->
            IF IsOrdered(v) THEN Return(PyBool(Num(v)[1] > 0))
            ELSE Raise("TypeError", <<"'>' not supported", TypeName(v), "int">>)
      [] predicate = "value < 2" ->
            IF IsOrdered(v) THEN Return(PyBool(Num(v)[1] < 20))
            ELSE Raise("TypeError", <<"'<' not supported", TypeName(v), "int">>)
      [] predicate = "value >" -> Raise("SyntaxError", <<"invalid syntax">>)
      [] predicate = "undefined > 0" -> Raise("NameError", <<"undefined">>)

(* lines 183-189: the predicates of one keyword, in their order *)
RECURSIVE PredicateLoop(_, _, _, _)
PredicateLoop(predicates, i, keyword, v) ==
    IF i > Len(predicates) THEN Return(PyNone)
    ELSE LET predicate == predicates[i]
             r == PyEval(predicate, v)
         IN  IF r.exc = "SyntaxError"
             THEN Raise("TemplateError", <<"syntax error in predicate", predicate, keyword>>)
             ELSE IF ~Returned(r) THEN r
             ELSE IF ~Truthy(r.val)
             THEN Raise("InputError", <<"predicate failed", predicate, keyword>>)
             ELSE PredicateLoop(predicates, i + 1, keyword, v)

(* lines 178-189: the keywords of the node, in the node's own key order *)
RECURSIVE PredicateKeywordsLoop(_, _, _, _)
PredicateKeywordsLoop(node, template, keywords, i) ==
    IF i > Len(keywords) THEN Return(PyNone)
    ELSE LET keyword == keywords[i]
         IN  IF "keywords" \notin DOMAIN template
             THEN Raise("KeyError", <<"keywords">>)
             ELSE IF \A j \in DOMAIN template.keywords : template.keywords[j].keyword # keyword
             THEN Raise("IndexError", <<"list index out of range">>)
             ELSE LET template_keyword == FirstWith(template.keywords, "keyword", keyword)
                      r == IF "predicates" \in DOMAIN template_keyword
                           THEN PredicateLoop(template_keyword.predicates, 1, keyword,
                                              Get(node, keyword))
                           ELSE Return(PyNone)
                  IN  IF ~Returned(r) THEN r
                      ELSE PredicateKeywordsLoop(node, template, keywords, i + 1)

RECURSIVE check_predicates_node(_, _, _)
RECURSIVE PredicateSectionsLoop(_, _, _, _, _)

(* lines 192-195 *)
PredicateSectionsLoop(root, node, template, sections, i) ==
    IF i > Len(sections) THEN Return(PyNone)
    ELSE LET section == sections[i]
         IN  IF ~Has(node, section) THEN Raise("KeyError", <<section>>)
             ELSE LET template_section == FirstWith(template.sections, "section", section)
                      r == check_predicates_node(root, Get(node, section), template_section)
                  IN  IF ~Returned(r) THEN r
                      ELSE PredicateSectionsLoop(root, node, template, sections, i + 1)

(* the keywords taken in the order in which the template declares them *)
check_predicates_node_template_order(root, node, template) ==
    LET r == PredicateKeywordsLoop(node, template, template_keywords(template), 1)
    IN  IF ~Returned(r) THEN r
        ELSE PredicateSectionsLoop(root, node, template, template_sections(template), 1)

check_predicates_node(root, node, template) ==
    LET r == PredicateKeywordsLoop(node, template, input_keywords(node), 1)
    IN  IF ~Returned(r) THEN r
        ELSE PredicateSectionsLoop(root, node, template, template_sections(template), 1)

(***************************************************************************)
(* types.py: rec_typenade                                                  *)
(***************************************************************************)
(* Error(address, message) *)
Error(address, message) == <<address, message>>

(* collate_errors(when=..., errors=...): one report of all the errors *)
collate_errors(when, errors) == <<when, errors>>

(* lines 188-193 *)
NoValueError(address, k) ==
    Error(Append(address, k), <<"is required but has no value", k>>)

(* a message that names the declared type in both places *)
MismatchErrorDeclaredTwice(address, k, v, declared) ==
    Error(Append(address, k),
          <<"Actual and declared types do not match", declared, declared>>)

(* lines 200-207 *)
MismatchError(address, k, v, declared) ==
    Error(Append(address, k),
          <<"Actual and declared types do not match", TypeName(v), declared>>)

TypenadeResult(outgoing, errors) == [exc |-> "none", outgoing |-> outgoing, errors |-> errors]

RECURSIVE rec_typenade(_, _, _, _)
RECURSIVE TypenadeLoop(_, _, _, _, _, _, _)

(* lines 179-208: one pass over incoming.items(), in order *)
TypenadeLoop(incoming, typesTree, fixate, address, i, outgoing, errors) ==
    IF i > Len(Items(incoming)) THEN TypenadeResult(outgoing, errors)
    ELSE
    LET k == Items(incoming)[i][1]
        v == Items(incoming)[i][2]
    IN  IF k \notin DOMAIN typesTree THEN Raise("KeyError", <<k>>)
        ELSE IF TypeName(v) = "dict"
        THEN LET sub == rec_typenade(v, typesTree[k], fixate, Append(address, k))
             IN  IF ~Returned(sub) THEN sub
                 ELSE TypenadeLoop(incoming, typesTree, fixate, address, i + 1,
                                   Put(outgoing, k, sub.outgoing), errors \o sub.errors)
        ELSE
        LET declared == typesTree[k]
        IN  IF v = PyNone
            THEN TypenadeLoop(incoming, typesTree, fixate, address, i + 1,
                              Put(outgoing, k, PyNone),
                              Append(errors, NoValueError(address, k)))
            ELSE LET m == types_type_matches(v, declared)
                 IN  IF ~Returned(m) THEN m
                     ELSE IF m.val
                     THEN TypenadeLoop(incoming, typesTree, fixate, address, i + 1,
                                       Put(outgoing, k,
                                           IF fixate THEN type_fixers(declared, v) ELSE v),
                                       errors)
                     ELSE TypenadeLoop(incoming, typesTree, fixate, address, i + 1,
                                       Put(outgoing, k, PyNone),
                                       Append(errors, MismatchError(address, k, v, declared)))

(* a traversal that keeps the first error only *)
rec_typenade_first_error_only(incoming, typesTree, fixate, address) ==
    LET r == TypenadeLoop(incoming, typesTree, fixate, address, 1, PyDict(<<>>), <<>>)
    IN  IF ~Returned(r) \/ r.errors = <<>> THEN r
        ELSE TypenadeResult(r.outgoing, <<r.errors[1]>>)

rec_typenade(incoming, typesTree, fixate, address) ==
    TypenadeLoop(incoming, typesTree, fixate, address, 1, PyDict(<<>>), <<>>)

(* lines 140-146: typenade(incoming, types) *)
typenade(incoming, typesTree) ==
    LET r == rec_typenade(incoming, typesTree, TRUE, <<>>)
    IN  IF ~Returned(r) THEN r
        ELSE IF r.errors # <<>>
        THEN Raise("ParselglossyError", collate_errors("checking types", r.errors))
        ELSE Return(r.outgoing)

(***************************************************************************)
(* validation.py: check_template, as section 4.2 of the specification and  *)
(* the reports expected by tests/test_check_template.py describe it        *)
(***************************************************************************)
NestedUnderKeyword == "Sections cannot be nested under keywords."
InvalidType == "Keywords must have a valid type."
KeywordDocstring == "Keywords must have a non-empty docstring."
SectionDocstring == "Sections must have a non-empty docstring."

(* the violations of one keyword entry, the docstring looked at first *)
KeywordViolationsDocstringFirst(keyword, address) ==
    LET at == Append(address, keyword.name)
    IN  (IF "docstring" \notin DOMAIN keyword \/ StripIsEmpty(keyword.docstring)
         THEN <<Error(at, KeywordDocstring)>> ELSE <<>>) \o
        (IF "sections" \in DOMAIN keyword
         THEN <<Error(at, NestedUnderKeyword)>> ELSE <<>>) \o
        (IF "type" \notin DOMAIN keyword \/ keyword.type \notin SeqToSet(allowed_types)
         THEN <<Error(at, InvalidType)>> ELSE <<>>)

(* the violations of one keyword entry, each checked on its own, all at the
   keyword's address *)
KeywordViolations(keyword, address) ==
    LET at == Append(address, keyword.name)
    IN  (IF "sections" \in DOMAIN keyword
         THEN <<Error(at, NestedUnderKeyword)>> ELSE <<>>) \o
        (IF "type" \notin DOMAIN keyword \/ keyword.type \notin SeqToSet(allowed_types)
         THEN <<Error(at, InvalidType)>> ELSE <<>>) \o
        (IF "docstring" \notin DOMAIN keyword \/ StripIsEmpty(keyword.docstring)
         THEN <<Error(at, KeywordDocstring)>> ELSE <<>>)

(* the keywords of a node, in declaration order *)
RECURSIVE CheckKeywordsLoop(_, _, _)
CheckKeywordsLoop(keywords, address, i) ==
    IF i > Len(keywords) THEN <<>>
    ELSE KeywordViolations(keywords[i], address) \o
         CheckKeywordsLoop(keywords, address, i + 1)

RECURSIVE rec_check_template(_, _)
RECURSIVE CheckSectionsLoop(_, _, _)

(* the child sections of a node, in declaration order: the section's own
   docstring, then the section's subtree *)
CheckSectionsLoop(sections, address, i) ==
    IF i > Len(sections) THEN <<>>
    ELSE LET section == sections[i]
             at == Append(address, section.name)
         IN  (IF "docstring" \notin DOMAIN section \/ section.docstring = ""
              THEN <<Error(at, SectionDocstring)>> ELSE <<>>) \o
             rec_check_template(section, at) \o
             CheckSectionsLoop(sections, address, i + 1)

(* depth first, the keywords of a node before its child sections *)
rec_check_template(template, address) ==
    CheckKeywordsLoop(IF "keywords" \in DOMAIN template THEN template.keywords ELSE <<>>,
                      address, 1) \o
    CheckSectionsLoop(IF "sections" \in DOMAIN template THEN template.sections ELSE <<>>,
                      address, 1)

(* check_template(template): silent when there is nothing to report *)
check_template(template) ==
    LET errors == rec_check_template(template, <<>>)
    IN  IF errors # <<>>
        THEN Raise("ParselglossyError", collate_errors("checking the template", errors))
        ELSE Return(PyNone)

(***************************************************************************)
(* The inputs of the model                                                 *)
(***************************************************************************)
(* values and tags given to type_matches and type_fixers *)
ScalarValues ==
    {PyBool(TRUE), PyBool(FALSE), PyInt(0), PyInt(1), PyStr("a"), PyFloat(15),
     PyComplex(0, 1), PyComplex(1, 2)}
ElementValues ==
    {PyBool(TRUE), PyInt(1), PyStr("a"), PyFloat(15), PyComplex(0, 1), PyNone, PyList(<<>>)}
ListValues == {PyList(s) : s \in SeqsUpTo(ElementValues, MaxLen)}
Values == ScalarValues \cup ListValues \cup {PyNone, PyDict(<<>>)}

Tags ==
    {"bool", "str", "int", "float", "complex",
     "List[bool]", "List[str]", "List[int]", "List[float]", "List[complex]"} \cup
    {"fooffa", "list", "Int", "NoneType", "List[]", "List[list]", "List[Int]",
     "List[NoneType]", "List[List[int]]"}

(* keyword specs of a template *)
Kw(name, type, doc) == [keyword |-> name, type |-> type, documentation |-> doc]
WithDefault(k, d) == k @@ ("default" :> d)
WithPredicates(k, p) == k @@ ("predicates" :> p)

(* the keyword lists over the specs A of one keyword and B of another *)
KeywordLists(A, B) ==
    {<<>>} \cup {<<x>> : x \in A} \cup {<<y>> : y \in B}
           \cup {<<x, y>> : x \in A, y \in B} \cup {<<y, x>> : x \in A, y \in B}

ShapeSpecsA ==
    {Kw("a", "int", "doc"),
     WithDefault(Kw("a", "int", "doc"), PyInt(1)),
     WithDefault(Kw("a", "int", "doc"), PyStr("x")),
     WithDefault([keyword |-> "a", type |-> "int"], PyInt(1)),
     WithDefault(Kw("a", "int", " "), PyInt(1)),
     WithDefault(Kw("a", "fooffa", "doc"), PyInt(1)),
     WithDefault(Kw("a", "List[int]", "doc"), PyList(<<PyInt(1)>>))}
ShapeSpecsB ==
    {Kw("b", "int", "doc"),
     WithDefault(Kw("b", "str", "doc"), PyStr("y"))}

(* the template sections named s, nested up to depth d *)
LeafSections ==
    {[section |-> "s"], [section |-> "s", keywords |-> <<>>]} \cup
    {[section |-> "s", keywords |-> <<k>>] :
        k \in {Kw("a", "int", "doc"),
               WithDefault(Kw("a", "int", "doc"), PyInt(1)),
               WithDefault(Kw("a", "int", "doc"), PyStr("x"))}}
RECURSIVE SectionNodes(_)
SectionNodes(d) ==
    IF d = 0 THEN {}
    ELSE LeafSections \cup
         {[section |-> "s",
           keywords |-> <<WithDefault(Kw("a", "int", "doc"), PyInt(1))>>,
           sections |-> <<c>>] : c \in SectionNodes(d - 1)}

NoKeys == <<>>
SectionsParts ==
    {NoKeys, [sections |-> <<>>]} \cup {[sections |-> <<c>>] : c \in SectionNodes(MaxDepth)}

ShapeTemplates ==
    {kp @@ sp : kp \in {NoKeys} \cup {[keywords |-> l] : l \in KeywordLists(ShapeSpecsA, ShapeSpecsB)},
                sp \in SectionsParts}

(* the input sections, nested up to depth d *)
RECURSIVE SectionInputs(_)
SectionInputs(d) ==
    IF d = 0 THEN {}
    ELSE {PyDict(<<>>), PyDict(<< <<"a", PyInt(1)>> >>), PyDict(<< <<"a", PyStr("x")>> >>)}
         \cup {PyDict(<< <<"s", c>> >>) : c \in SectionInputs(d - 1)}

(* the items of keywords a and b, in either order *)
KeywordItems(VA, VB) ==
    {<<>>} \cup {<< <<"a", x>> >> : x \in VA} \cup {<< <<"b", y>> >> : y \in VB}
           \cup {<< <<"a", x>>, <<"b", y>> >> : x \in VA, y \in VB}
           \cup {<< <<"b", y>>, <<"a", x>> >> : x \in VA, y \in VB}

(* an undeclared keyword z, an undeclared section u *)
ExtraItems ==
    {<<>>, << <<"z", PyInt(1)>> >>, << <<"u", PyDict(<<>>)>> >>,
     << <<"z", PyInt(1)>>, <<"u", PyDict(<<>>)>> >>}

ShapeInputs ==
    {PyDict(kw \o sec \o extra) :
        kw \in KeywordItems({PyInt(1), PyStr("x")}, {PyInt(1)}),
        sec \in {<<>>} \cup {<< <<"s", c>> >> : c \in SectionInputs(MaxDepth)},
        extra \in ExtraItems}

(* templates with predicates, and their inputs *)
PredicateLists ==
    {<<"value > 0">>, <<"value > 0", "value < 2">>, <<"value < 2", "value > 0">>,
     <<"value >">>, <<"undefined > 0">>}
PredicateSpecsA ==
    {WithPredicates(k, p) :
        k \in {Kw("a", t, "doc") : t \in {"int", "str"}} \cup
              {WithDefault(Kw("a", "int", "doc"), PyInt(-1))},
        p \in PredicateLists}
PredicateSpecsB ==
    {Kw("b", "int", "doc"), WithPredicates(Kw("b", "int", "doc"), <<"value > 0">>)}
PredicateSection ==
    [section |-> "s",
     keywords |-> <<WithPredicates(Kw("a", "int", "doc"), <<"value > 0">>)>>]
PredicateSectionT ==
    [section |-> "t",
     keywords |-> <<WithPredicates(Kw("a", "int", "doc"), <<"value < 2">>)>>]
PredicateTemplates ==
    {[keywords |-> l] @@ sp :
        l \in KeywordLists(PredicateSpecsA, PredicateSpecsB) \ {<<>>},
        sp \in {NoKeys, [sections |-> <<PredicateSection>>],
                [sections |-> <<PredicateSection, PredicateSectionT>>]}}
PredicateInputs ==
    {PyDict(kw \o sec) :
        kw \in KeywordItems({PyInt(1), PyInt(-1), PyInt(3), PyStr("x")}, {PyInt(1), PyInt(-1)}),
        sec \in {<<>>, << <<"s", PyDict(<< <<"a", PyInt(1)>> >>)>> >>,
                 << <<"s", PyDict(<< <<"a", PyInt(-1)>> >>)>> >>,
                 << <<"s", PyDict(<< <<"a", PyInt(-1)>> >>)>>,
                    <<"t", PyDict(<< <<"a", PyInt(3)>> >>)>> >>,
                 << <<"t", PyDict(<< <<"a", PyInt(3)>> >>)>>,
                    <<"s", PyDict(<< <<"a", PyInt(-1)>> >>)>> >>}}

(* templates given to check_template: the keyword entries of
   tests/test_check_template.py and their variations *)
Entry(name) == [name |-> name]
Opt(key, V) == {NoKeys} \cup {key :> v : v \in V}
good_keyword == [name |-> "title", type |-> "str", docstring |-> "doc"]
good_section == [name |-> "scf", docstring |-> "doc", keywords |-> <<good_keyword>>]
keyword_with_section == good_keyword @@ [sections |-> <<good_section>>]
keyword_with_nothing == Entry("title")
nested_sections_without_docstring ==
    [sections |-> <<[name |-> "foo", keywords |-> <<good_keyword>>,
                     sections |-> <<Entry("bar")>>]>>]
nested_sections_with_malformed_keyword ==
    [sections |-> <<[name |-> "foo",
                     keywords |-> <<keyword_with_section, keyword_with_nothing>>,
                     sections |-> <<Entry("bar")>>]>>]
TitleKeywords ==
    {Entry("title") @@ t @@ d @@ s :
        t \in Opt("type", {"str", "fooffa"}),
        d \in Opt("docstring", {"doc", " "}),
        s \in Opt("sections", {<<good_section>>})}
OtherKeywords == {[name |-> "b", type |-> "int", docstring |-> "doc"], Entry("b")}
RECURSIVE BarSections(_)
BarSections(d) ==
    IF d = 0 THEN {}
    ELSE {Entry("bar") @@ ds : ds \in Opt("docstring", {"doc", ""})} \cup
         {[name |-> "bar", docstring |-> "doc", sections |-> <<c>>] : c \in BarSections(d - 1)}
FooSections ==
    {Entry("foo") @@ ds @@ ks @@ ss :
        ds \in Opt("docstring", {"doc"}),
        ks \in Opt("keywords", {<<good_keyword>>, <<keyword_with_nothing>>,
                                <<keyword_with_section, keyword_with_nothing>>}),
        ss \in Opt("sections", {<<c>> : c \in BarSections(MaxDepth)})}
ScfSections == {Entry("scf"), [name |-> "scf", docstring |-> "doc"]}
CheckedTemplates ==
    {ks @@ ss :
        ks \in Opt("keywords", KeywordLists(TitleKeywords, OtherKeywords)),
        ss \in Opt("sections", {<<f>> : f \in FooSections} \cup
                               {<<f, g>> : f \in FooSections, g \in ScfSections} \cup
                               {<<g, f>> : f \in FooSections, g \in ScfSections})}

(* the orders in which a set of the keyword names can iterate *)
HashOrders == {<<"a", "b">>, <<"b", "a">>}

(* incoming trees of rec_typenade, each with a types tree of its shape: a
   pair <<items, types>> *)
LeafPairs(name, V, T) == {<< <<name, v>>, name :> t >> : v \in V, t \in T}
TypenadeA ==
    LeafPairs("a", {PyInt(1), PyStr("x"), PyNone, PyBool(TRUE),
                    PyList(<<PyInt(1), PyInt(2)>>)},
              {"int", "str", "List[int]", "fooffa"})
TypenadeB == LeafPairs("b", {PyInt(1), PyNone}, {"int", "str"})
TypenadeKeywords ==
    {<< <<>>, NoKeys >>}
    \cup {<< <<x[1]>>, x[2] >> : x \in TypenadeA \cup TypenadeB}
    \cup {<< <<x[1], y[1]>>, x[2] @@ y[2] >> : x \in TypenadeA, y \in TypenadeB}
    \cup {<< <<y[1], x[1]>>, x[2] @@ y[2] >> : x \in TypenadeA, y \in TypenadeB}
RECURSIVE TypenadeSections(_)
TypenadeSections(d) ==
    IF d = 0 THEN {}
    ELSE {<< <<>>, NoKeys >>}
         \cup {<< <<x[1]>>, x[2] >> :
                  x \in LeafPairs("a", {PyInt(1), PyStr("x"), PyNone}, {"int", "str"})}
         \cup {<< << <<"s", PyDict(c[1])>> >>, "s" :> c[2] >> : c \in TypenadeSections(d - 1)}
TypenadePairs ==
    {<< PyDict(k[1] \o sec[1]), k[2] @@ sec[2] >> :
        k \in TypenadeKeywords,
        sec \in {<< <<>>, NoKeys >>} \cup
                {<< << <<"s", PyDict(c[1])>> >>, "s" :> c[2] >> : c \in TypenadeSections(MaxDepth)}}

(***************************************************************************)
(* The state machine: a caller prepares arguments (Init) and calls         *)
(***************************************************************************)
Unused == <<>>

InitTypes ==
    /\ scenario = "types"
    /\ value \in Values
    /\ expected_type \in Tags
    /\ template_dict = Unused /\ input_dict = Unused /\ input0 = Unused
    /\ types = Unused

InitValidate ==
    /\ scenario = "validate"
    /\ \/ template_dict \in ShapeTemplates /\ input_dict \in ShapeInputs
       \/ template_dict \in PredicateTemplates /\ input_dict \in PredicateInputs
    /\ input0 = input_dict
    /\ value = Unused /\ expected_type = "" /\ types = Unused

InitTypenade ==
    /\ scenario = "typenade"
    /\ \E p \in TypenadePairs : input_dict = p[1] /\ types = p[2]
    /\ input0 = input_dict
    /\ value = Unused /\ expected_type = "" /\ template_dict = Unused

InitTemplate ==
    /\ scenario = "template"
    /\ template_dict \in CheckedTemplates
    /\ input_dict = Unused /\ input0 = Unused
    /\ value = Unused /\ expected_type = "" /\ types = Unused

Init ==
    /\ pc = "start" /\ op = "" /\ ret = Unused /\ merged = Unused
    /\ (InitTypes \/ InitValidate \/ InitTypenade \/ InitTemplate)

(* types.type_matches(value, expected_type) *)
CallTypesTypeMatches ==
    /\ scenario = "types" /\ pc = "start"
    /\ ret' = types_type_matches(value, expected_type)
    /\ op' = "types.type_matches" /\ pc' = "done"
    /\ UNCHANGED <<scenario, value, expected_type, template_dict, input_dict, input0,
                   merged, types>>

(* validate.type_matches(value, expected_type) *)
CallValidateTypeMatches ==
    /\ scenario = "types" /\ pc = "start"
    /\ ret' = validate_type_matches(value, expected_type)
    /\ op' = "validate.type_matches" /\ pc' = "done"
    /\ UNCHANGED <<scenario, value, expected_type, template_dict, input_dict, input0,
                   merged, types>>

(* type_fixers[expected_type](value), for a value that matches the tag *)
CallTypeFixer ==
    /\ scenario = "types" /\ pc = "start"
    /\ types_type_matches(value, expected_type) = Return(TRUE)
    /\ ret' = Return(type_fixers(expected_type, value))
    /\ op' = "type_fixers" /\ pc' = "done"
    /\ UNCHANGED <<scenario, value, expected_type, template_dict, input_dict, input0,
                   merged, types>>

(* validate_node(input_dict, template_dict): the call assigns into the
   caller's mapping and returns that mapping *)
CallValidateNode ==
    /\ scenario = "validate" /\ pc = "start"
    /\ \E hashOrder \in HashOrders :
          LET r == validate_node(input_dict, template_dict, hashOrder)
          IN  /\ input_dict' = r.node
              /\ ret' = IF r.exc = "none" THEN Return(r.node) ELSE Raise(r.exc, r.msg)
              /\ merged' = IF r.exc = "none" THEN r.node ELSE Unused
    /\ op' = "validate_node" /\ pc' = "validated"
    /\ UNCHANGED <<scenario, value, expected_type, template_dict, input0, types>>

(* validate_node(merged, template_dict) on the node the first call returned *)
CallValidateNodeAgain ==
    /\ scenario = "validate" /\ pc = "validated" /\ Returned(ret)
    /\ \E hashOrder \in HashOrders :
          LET r == validate_node(input_dict, template_dict, hashOrder)
          IN  /\ input_dict' = r.node
              /\ ret' = IF r.exc = "none" THEN Return(r.node) ELSE Raise(r.exc, r.msg)
    /\ op' = "validate_node again" /\ pc' = "done"
    /\ UNCHANGED <<scenario, value, expected_type, template_dict, input0, merged, types>>

(* check_predicates_node(merged, merged, template_dict) *)
CallCheckPredicatesNode ==
    /\ scenario = "validate" /\ pc = "validated" /\ Returned(ret)
    /\ ret' = check_predicates_node(input_dict, input_dict, template_dict)
    /\ op' = "check_predicates_node" /\ pc' = "done"
    /\ UNCHANGED <<scenario, value, expected_type, template_dict, input_dict, input0,
                   merged, types>>

(* rec_typenade(incoming, types, fixate=fixate) *)
CallRecTypenade ==
    /\ scenario = "typenade" /\ pc = "start"
    /\ \E fixate \in BOOLEAN :
          /\ ret' = rec_typenade(input_dict, types, fixate, <<>>)
          /\ op' = IF fixate THEN "rec_typenade fixate" ELSE "rec_typenade"
    /\ pc' = "done"
    /\ UNCHANGED <<scenario, value, expected_type, template_dict, input_dict, input0,
                   merged, types>>

(* typenade(incoming, types) *)
CallTypenade ==
    /\ scenario = "typenade" /\ pc = "start"
    /\ ret' = typenade(input_dict, types)
    /\ op' = "typenade" /\ pc' = "done"
    /\ UNCHANGED <<scenario, value, expected_type, template_dict, input_dict, input0,
                   merged, types>>

(* check_template(template_dict) *)
CallCheckTemplate ==
    /\ scenario = "template" /\ pc = "start"
    /\ ret' = check_template(template_dict)
    /\ op' = "check_template" /\ pc' = "done"
    /\ UNCHANGED <<scenario, value, expected_type, template_dict, input_dict, input0,
                   merged, types>>

Next ==
    \/ CallTypesTypeMatches
    \/ CallValidateTypeMatches
    \/ CallTypeFixer
    \/ CallValidateNode
    \/ CallValidateNodeAgain
    \/ CallCheckPredicatesNode
    \/ CallRecTypenade
    \/ CallTypenade
    \/ CallCheckTemplate

Spec == Init /\ [][Next]_vars

(***************************************************************************)
(* The claims                                                              *)
(***************************************************************************)
TypeMatchesOps == {"types.type_matches", "validate.type_matches"}

(* C1 (as claimed): type_fixers["List[T]"] applies T's own constructor to
   every element of the list, and for List[int] and a list of ints the
   result is equal by value to the input. *)
C1_ListFixerAppliesOwnConstructor ==
    (op = "type_fixers" /\ ReSearchList(expected_type) # <<>>) =>
        /\ ret.val = PyList([i \in DOMAIN Payload(value) |->
                               Construct(ReSearchList(expected_type)[1], Payload(value)[i])])
        /\ (expected_type = "List[int]" => PyEq(ret.val, value))

(* The ten recognized tags, written out. *)
TenTags ==
    {"bool", "str", "int", "float", "complex",
     "List[bool]", "List[str]", "List[int]", "List[float]", "List[complex]"}

(* C8: both type_matches raise ValueError for every tag outside the ten
   recognized tags, whatever the value, and return a boolean, never raising,
   for each of the ten. *)
C8_UnrecognizedTagRaises ==
    (op \in TypeMatchesOps) =>
        /\ (expected_type \notin TenTags =>
                ret = Raise("ValueError",
                            <<"could not recognize expected_type", expected_type>>))
        /\ (expected_type \in TenTags => Returned(ret) /\ ret.val \in BOOLEAN)

(* C8 witness: the unrecognized tag List[list] is rejected for a list of
   lists, which a check of the value would have matched. *)
C8_Witness ==
    /\ op = "types.type_matches" /\ expected_type = "List[list]"
    /\ value = PyList(<<PyList(<<>>)>>) /\ ret.exc = "ValueError"

ScalarTagOf(tag) ==
    CHOOSE t \in {"bool", "str", "int", "float", "complex"} : tag = "List[" \o t \o "]"

(* C9: for a list tag List[T] type_matches answers true exactly when the
   value is a list whose elements all have the type name T, and the two
   implementations agree on every value and recognized tag. *)
C9_ListMatchesElementwise ==
    /\ (op \in TypeMatchesOps /\ expected_type \in TenTags
          /\ expected_type \notin {"bool", "str", "int", "float", "complex"}) =>
            ret = Return(/\ TypeName(value) = "list"
                         /\ \A i \in 1..Len(Payload(value)) :
                               TypeName(Payload(value)[i]) = ScalarTagOf(expected_type))
    /\ (scenario = "types" /\ expected_type \in TenTags) =>
            types_type_matches(value, expected_type)
                = validate_type_matches(value, expected_type)

(* C9 witness: a list of an int followed by a bool has been refused for
   List[int] by the loop of validate.py. *)
C9_Witness ==
    /\ op = "validate.type_matches" /\ expected_type = "List[int]"
    /\ value = PyList(<<PyInt(1), PyBool(TRUE)>>)
    /\ ret = Return(FALSE)

(* The notions of the claims, stated on the caller's arguments. *)
ScalarTags == {"bool", "str", "int", "float", "complex"}

(* the value's runtime type agrees with the recognized tag *)
Agrees(v, tag) ==
    IF tag \in ScalarTags THEN TypeName(v) = tag
    ELSE /\ TypeName(v) = "list"
         /\ \A i \in 1..Len(Payload(v)) : TypeName(Payload(v)[i]) = ScalarTagOf(tag)

DeclaredKeywords(tpl) == IF "keywords" \in DOMAIN tpl THEN tpl.keywords ELSE <<>>
DeclaredSections(tpl) == IF "sections" \in DOMAIN tpl THEN tpl.sections ELSE <<>>
KeywordNamesOf(tpl) == {DeclaredKeywords(tpl)[i].keyword : i \in DOMAIN DeclaredKeywords(tpl)}
SectionNamesOf(tpl) == {DeclaredSections(tpl)[i].section : i \in DOMAIN DeclaredSections(tpl)}
SpecOf(tpl, k) ==
    DeclaredKeywords(tpl)[CHOOSE i \in DOMAIN DeclaredKeywords(tpl) :
                              DeclaredKeywords(tpl)[i].keyword = k]

Undocumented(tpl) ==
    {x.keyword : x \in {y \in SeqToSet(DeclaredKeywords(tpl)) :
                           \/ "documentation" \notin DOMAIN y
                           \/ y.documentation \in {"", " "}}}
UnexpectedKeywords(inp, tpl) ==
    {k \in KeySet(inp) : TypeName(Get(inp, k)) # "dict"} \ KeywordNamesOf(tpl)
UnexpectedSections(inp, tpl) ==
    {k \in KeySet(inp) : TypeName(Get(inp, k)) = "dict"} \ SectionNamesOf(tpl)
MissingRequired(inp, tpl) ==
    {k \in KeywordNamesOf(tpl) : "default" \notin DOMAIN SpecOf(tpl, k)} \ KeySet(inp)
(* the declared keywords of the input whose value disagrees with the tag *)
Mismatched(inp, tpl) ==
    {k \in KeySet(inp) \cap KeywordNamesOf(tpl) :
        /\ TypeName(Get(inp, k)) # "dict"
        /\ "type" \in DOMAIN SpecOf(tpl, k)
        /\ SpecOf(tpl, k).type \in TenTags
        /\ ~Agrees(Get(inp, k), SpecOf(tpl, k).type)}

FourProblems ==
    /\ scenario = "validate" /\ "keywords" \in DOMAIN template_dict
    /\ Undocumented(template_dict) = {}
    /\ UnexpectedKeywords(input0, template_dict) # {}
    /\ UnexpectedSections(input0, template_dict) # {}
    /\ MissingRequired(input0, template_dict) # {}
    /\ Mismatched(input0, template_dict) # {}

(* C2 (as claimed): for an input node with an unexpected keyword, an
   unexpected section, a missing required keyword and a type-mismatched
   keyword, the one call of validate_node reports every one of the four. *)
C2_AllProblemsReported ==
    (op = "validate_node" /\ FourProblems) =>
        /\ ret.exc = "InputError"
        /\ \E m \in {ret.msg} : m[1] = "found unexpected keyword(s)"
        /\ \E m \in {ret.msg} : m[1] = "found unexpected section(s)"
        /\ \E m \in {ret.msg} : m[1] = "the following keyword(s) must be set"
        /\ \E m \in {ret.msg} : m[1] = "incorrect type for keyword"

(* C2 (amended): validate_node stops at the first step that fails and
   reports that step alone, the steps running in the order undocumented
   template keywords, unexpected keywords, unexpected sections, missing
   required keywords; so an input with the four problems gets one error, for
   its unexpected keywords (or the TemplateError of an undocumented keyword),
   and nothing is filled in. *)
C2_FirstFailingStepOnly ==
    (op = "validate_node" /\ "keywords" \in DOMAIN template_dict) =>
        IF Undocumented(template_dict) # {}
        THEN ret.exc = "TemplateError" /\ input_dict = input0
        ELSE IF UnexpectedKeywords(input0, template_dict) # {}
        THEN /\ ret = Raise("InputError", <<"found unexpected keyword(s)",
                                            UnexpectedKeywords(input0, template_dict)>>)
             /\ input_dict = input0
        ELSE IF UnexpectedSections(input0, template_dict) # {}
        THEN /\ ret = Raise("InputError", <<"found unexpected section(s)",
                                            UnexpectedSections(input0, template_dict)>>)
             /\ input_dict = input0
        ELSE MissingRequired(input0, template_dict) # {} =>
             /\ ret = Raise("InputError", <<"the following keyword(s) must be set",
                                            MissingRequired(input0, template_dict)>>)
             /\ input_dict = input0

(* C2 witness: an input with the four problems against a documented template
   has been refused for its unexpected keyword. *)
C2_Witness ==
    /\ op = "validate_node" /\ FourProblems
    /\ ret = Raise("InputError", <<"found unexpected keyword(s)", {"z"}>>)

(* C3 (as claimed): a template section absent from the input is validated as
   an empty mapping: when the input with an empty mapping for the section
   validates, so does the input without it, with the same merged node. *)
C3_AbsentSectionIsEmptyMapping ==
    (/\ op = "validate_node"
     /\ "sections" \in DOMAIN template_dict
     /\ \E i \in DOMAIN template_dict.sections :
            LET section == template_dict.sections[i].section
            IN  /\ ~Has(input0, section)
                /\ validate_node(Put(input0, section, PyDict(<<>>)), template_dict,
                                 <<"a", "b">>).exc = "none")
    => /\ Returned(ret)
       /\ \A i \in DOMAIN template_dict.sections :
            LET section == template_dict.sections[i].section
            IN  /\ Has(ret.val, section)
                /\ PyEq(ret.val,
                        validate_node(Put(input0, section, PyDict(<<>>)), template_dict,
                                      <<"a", "b">>).node)

(* the merged node m holds exactly the keys the template node declares, each
   keyword with the input's value or else the default, each section merged *)
RECURSIVE WellMerged(_, _, _)
WellMerged(m, inp, tpl) ==
    /\ TypeName(m) = "dict"
    /\ KeySet(m) = KeywordNamesOf(tpl) \cup SectionNamesOf(tpl)
    /\ Len(Items(m)) = Cardinality(KeySet(m))
    /\ \A k \in KeywordNamesOf(tpl) :
          Get(m, k) = IF Has(inp, k) THEN Get(inp, k) ELSE SpecOf(tpl, k).default
    /\ \A i \in DOMAIN DeclaredSections(tpl) :
          LET section == DeclaredSections(tpl)[i].section
          IN  /\ Has(inp, section)
              /\ WellMerged(Get(m, section), Get(inp, section), DeclaredSections(tpl)[i])

(* C4: a node that validate_node returns holds every keyword and section of
   the template node at every level, each keyword with the user's value or
   the template default verbatim, and no other key. *)
C4_ReturnedNodeHasTemplateShape ==
    (op = "validate_node" /\ Returned(ret)) => WellMerged(ret.val, input0, template_dict)

(* C4 witness: a call has returned with the user's value for a at the root
   and the default of a filled in inside section s. *)
C4_Witness ==
    /\ op = "validate_node" /\ Returned(ret)
    /\ Has(input0, "a") /\ Has(input0, "s") /\ ~Has(Get(input0, "s"), "a")
    /\ Has(ret.val, "s") /\ Has(Get(ret.val, "s"), "a")
    /\ Get(ret.val, "a") = Get(input0, "a")

RecTypenadeOps == {"rec_typenade", "rec_typenade fixate"}

(* C5 (as claimed): validation leaves the caller's input tree as it was:
   after validate_node, and after rec_typenade, the mapping passed in has
   exactly the keys and values it had before the call. *)
C5_InputTreeUnchanged ==
    (op \in {"validate_node"} \cup RecTypenadeOps) => input_dict = input0

(* after is before with nothing but template defaults filled in: the keys of
   before in their positions, keyword values as they were, sections changed
   in this way only, and after them keys of defaulted template keywords *)
RECURSIVE OnlyFilled(_, _, _)
OnlyFilled(after, before, tpl) ==
    /\ TypeName(after) = "dict"
    /\ Len(Items(after)) >= Len(Items(before))
    /\ \A i \in DOMAIN Items(before) :
          LET k == Items(before)[i][1]
              v == Items(before)[i][2]
              w == Items(after)[i][2]
          IN  /\ Items(after)[i][1] = k
              /\ IF TypeName(v) = "dict" /\ k \in SectionNamesOf(tpl)
                 THEN OnlyFilled(w, v,
                         DeclaredSections(tpl)[CHOOSE j \in DOMAIN DeclaredSections(tpl) :
                                                  DeclaredSections(tpl)[j].section = k])
                 ELSE w = v
    /\ \A i \in (Len(Items(before)) + 1)..Len(Items(after)) :
          LET k == Items(after)[i][1]
          IN  /\ k \in KeywordNamesOf(tpl) /\ ~Has(before, k)
              /\ "default" \in DOMAIN SpecOf(tpl, k)
              /\ Items(after)[i][2] = SpecOf(tpl, k).default

(* C5 (amended): validate_node assigns into the caller's mapping and returns
   that same mapping: whether the call returns or raises, the mapping keeps
   the keys it had, in place and with their keyword values, and gains only
   template keywords set to their defaults (likewise inside its sections);
   rec_typenade leaves its incoming mapping as it was. *)
C5_InputFilledInPlace ==
    /\ (op = "validate_node") =>
          /\ OnlyFilled(input_dict, input0, template_dict)
          /\ (Returned(ret) => ret.val = input_dict)
    /\ (op \in RecTypenadeOps) => input_dict = input0

(* C5 witness: validate_node has returned and the caller's mapping holds a
   key it did not hold before the call. *)
C5_Witness ==
    /\ op = "validate_node" /\ Returned(ret)
    /\ KeySet(input_dict) # KeySet(input0)

(* C6 (as claimed): validate_node run again on the node it returned, against
   the same template, returns without error a node equal to the first. *)
C6_RevalidationIdempotent ==
    (op = "validate_node again") => Returned(ret) /\ PyEq(ret.val, merged)

(* the leaf keywords of a tree with their addresses and declared tags *)
RECURSIVE Leaves(_, _, _)
Leaves(tree, typesTree, address) ==
    UNION {LET k == Items(tree)[i][1]
               v == Items(tree)[i][2]
           IN  IF TypeName(v) = "dict"
               THEN Leaves(v, typesTree[k], Append(address, k))
               ELSE {[address |-> Append(address, k), k |-> k, v |-> v,
                      declared |-> typesTree[k]]}
           : i \in DOMAIN Items(tree)}

RECURSIVE GetPath(_, _)
GetPath(tree, address) ==
    IF address = <<>> THEN tree ELSE GetPath(Get(tree, Head(address)), Tail(address))

ErrorsAt(errors, address) == SelectSeq(errors, LAMBDA e : e[1] = address)

(* the root passes every step of validate_node before the type checks, and
   the tags of its input keywords are recognized *)
RootTypesChecked ==
    /\ scenario = "validate" /\ "keywords" \in DOMAIN template_dict
    /\ Undocumented(template_dict) = {}
    /\ UnexpectedKeywords(input0, template_dict) = {}
    /\ UnexpectedSections(input0, template_dict) = {}
    /\ MissingRequired(input0, template_dict) = {}
    /\ \A k \in KeySet(input0) \cap KeywordNamesOf(template_dict) :
          "type" \in DOMAIN SpecOf(template_dict, k)
              /\ SpecOf(template_dict, k).type \in TenTags

(* C7 (as claimed): every declared input keyword whose runtime type disagrees
   with its tag gets a type-mismatch error naming the actual and the declared
   type, and its merged value is None. *)
C7_MismatchNamesBothTypes ==
    /\ (op \in RecTypenadeOps /\ Returned(ret)) =>
          \A leaf \in Leaves(input_dict, types, <<>>) :
              (leaf.declared \in TenTags /\ ~Agrees(leaf.v, leaf.declared)) =>
                  /\ ErrorsAt(ret.errors, leaf.address) =
                        << <<leaf.address, <<"Actual and declared types do not match",
                                             TypeName(leaf.v), leaf.declared>> >> >>
                  /\ GetPath(ret.outgoing, leaf.address) = PyNone
    /\ (op = "validate_node" /\ RootTypesChecked) =>
          \A k \in Mismatched(input0, template_dict) :
              /\ ret.exc = "InputError"
              /\ TypeName(Get(input0, k)) \in SeqToSet(ret.msg)
              /\ SpecOf(template_dict, k).type \in SeqToSet(ret.msg)

(* C7 (amended): rec_typenade gives every leaf keyword whose value is not
   None and whose runtime type disagrees with its recognized tag exactly one
   error, naming the actual and the declared type, and the outgoing value
   None; a leaf whose value is None gets the error 'is required but has no
   value' instead.  validate_node raises, for the first input keyword in the
   input's order whose type disagrees, an InputError naming the keyword and
   the declared type only, and returns no merged node. *)
C7_MismatchReported ==
    /\ (op \in RecTypenadeOps /\ Returned(ret)) =>
          \A leaf \in Leaves(input_dict, types, <<>>) :
              /\ (/\ leaf.v # PyNone /\ leaf.declared \in TenTags
                  /\ ~Agrees(leaf.v, leaf.declared)) =>
                    /\ ErrorsAt(ret.errors, leaf.address) =
                          << <<leaf.address, <<"Actual and declared types do not match",
                                               TypeName(leaf.v), leaf.declared>> >> >>
                    /\ GetPath(ret.outgoing, leaf.address) = PyNone
              /\ (leaf.v = PyNone) =>
                    /\ ErrorsAt(ret.errors, leaf.address) =
                          << <<leaf.address, <<"is required but has no value", leaf.k>> >> >>
                    /\ GetPath(ret.outgoing, leaf.address) = PyNone
    /\ (op = "validate_node" /\ RootTypesChecked
          /\ Mismatched(input0, template_dict) # {}) =>
          LET order == Restrict(Keys(input0), Mismatched(input0, template_dict))
          IN  /\ ret = Raise("InputError",
                             <<"incorrect type for keyword", order[1],
                               SpecOf(template_dict, order[1]).type>>)
              /\ input_dict = input0

(* C7 witness: rec_typenade has reported the str value of keyword a inside
   section s, declared int, and unset it. *)
C7_Witness ==
    /\ op = "rec_typenade fixate" /\ Returned(ret)
    /\ Has(input_dict, "s") /\ Has(Get(input_dict, "s"), "a")
    /\ Get(Get(input_dict, "s"), "a") = PyStr("x")
    /\ types["s"]["a"] = "int"
    /\ GetPath(ret.outgoing, <<"s", "a">>) = PyNone

(* C10 (as claimed): a predicate check ends in one of three ways: it returns
   (every predicate true), or an InputError (a predicate false), or a
   TemplateError (a predicate that cannot be evaluated). *)
C10_OnlyInputOrTemplateError ==
    (op = "check_predicates_node") => ret.exc \in {"none", "InputError", "TemplateError"}

(* the reports check_template owes a template, each with its place in the
   traversal: places are sequences of numbers compared position by position *)
KeywordsOf(node) == IF "keywords" \in DOMAIN node THEN node.keywords ELSE <<>>
SectionsOf(node) == IF "sections" \in DOMAIN node THEN node.sections ELSE <<>>
Blank(text) == text \in {"", " "}

RECURSIVE Placed(_, _, _)
Placed(node, address, place) ==
    LET ks == KeywordsOf(node)
        ss == SectionsOf(node)
        At(names, i) == Append(address, names[i].name)
    IN  {<<place \o <<j, 1>>, At(ks, j), NestedUnderKeyword>> :
            j \in {j \in DOMAIN ks : "sections" \in DOMAIN ks[j]}} \cup
        {<<place \o <<j, 2>>, At(ks, j), InvalidType>> :
            j \in {j \in DOMAIN ks : "type" \notin DOMAIN ks[j] \/ ks[j].type \notin TenTags}} \cup
        {<<place \o <<j, 3>>, At(ks, j), KeywordDocstring>> :
            j \in {j \in DOMAIN ks :
                      "docstring" \notin DOMAIN ks[j] \/ Blank(ks[j].docstring)}} \cup
        {<<place \o <<Len(ks) + i, 0>>, At(ss, i), SectionDocstring>> :
            i \in {i \in DOMAIN ss :
                      "docstring" \notin DOMAIN ss[i] \/ ss[i].docstring = ""}} \cup
        UNION {Placed(ss[i], At(ss, i), Append(place, Len(ks) + i)) : i \in DOMAIN ss}

RECURSIVE LexLess(_, _)
LexLess(a, b) ==
    IF a = <<>> THEN b # <<>>
    ELSE IF b = <<>> THEN FALSE
    ELSE IF a[1] # b[1] THEN a[1] < b[1]
    ELSE LexLess(Tail(a), Tail(b))

RECURSIVE InOrder(_)
InOrder(S) ==
    IF S = {} THEN <<>>
    ELSE LET first == CHOOSE x \in S : \A y \in S \ {x} : LexLess(x[1], y[1])
         IN  <<Error(first[2], first[3])>> \o InOrder(S \ {first})

Reported == IF Returned(ret) THEN <<>> ELSE ret.msg[2]

(* C11: check_template reports every violation of the template, in traversal
   order: a section's own docstring violation, then for each of its keywords
   in declaration order the violations nested-sections, invalid-type,
   empty-docstring at the keyword's address, then its child sections depth
   first; it raises exactly when there is something to report, and the
   reports for the templates of test_check_template.py are the expected
   ones *)
C11_ViolationsInTraversalOrder ==
    op = "check_template" =>
        /\ Reported = InOrder(Placed(template_dict, <<>>, <<>>))
        /\ Returned(ret) <=> Reported = <<>>
        /\ ~Returned(ret) => ret.exc = "ParselglossyError"
        /\ template_dict = [keywords |-> <<keyword_with_nothing>>] =>
              Reported = <<Error(<<"title">>, InvalidType),
                           Error(<<"title">>, KeywordDocstring)>>
        /\ template_dict = nested_sections_without_docstring =>
              Reported = <<Error(<<"foo">>, SectionDocstring),
                           Error(<<"foo", "bar">>, SectionDocstring)>>
        /\ template_dict = nested_sections_with_malformed_keyword =>
              Reported = <<Error(<<"foo">>, SectionDocstring),
                           Error(<<"foo", "title">>, NestedUnderKeyword),
                           Error(<<"foo", "title">>, InvalidType),
                           Error(<<"foo", "title">>, KeywordDocstring),
                           Error(<<"foo", "bar">>, SectionDocstring)>>

(* a template whose section lacks a docstring, holds a keyword nesting a
   section and a keyword with neither type nor docstring, and has a child
   section without docstring: five reports *)
C11_Witness ==
    /\ op = "check_template"
    /\ template_dict = nested_sections_with_malformed_keyword
    /\ ~Returned(ret) /\ Len(ret.msg[2]) = 5

Passes == Return(PyNone)

(* what the predicates of keyword k say about its value in node: Passes,
   or the error of the first predicate, in their declaration order, that does
   not evaluate to true *)
PredicatesOf(tpl, k) ==
    IF "predicates" \in DOMAIN SpecOf(tpl, k) THEN SpecOf(tpl, k).predicates ELSE <<>>
KeywordOutcome(tpl, node, k) ==
    LET ps == PredicatesOf(tpl, k)
        bad == {i \in DOMAIN ps : PyEval(ps[i], Get(node, k)) # Return(PyBool(TRUE))}
    IN  IF bad = {} THEN Passes
        ELSE LET i == CHOOSE i \in bad : \A j \in bad : i <= j
                 r == PyEval(ps[i], Get(node, k))
             IN  IF r.exc = "SyntaxError"
                 THEN Raise("TemplateError", <<"syntax error in predicate", ps[i], k>>)
                 ELSE IF r.exc = "none"
                 THEN Raise("InputError", <<"predicate failed", ps[i], k>>)
                 ELSE r

KeywordKeys(node) == SelectSeq(Keys(node), LAMBDA k : TypeName(Get(node, k)) # "dict")
DeclaredKeywordNames(tpl) ==
    [i \in DOMAIN DeclaredKeywords(tpl) |-> DeclaredKeywords(tpl)[i].keyword]

(* the outcome of checking a node: the first keyword, in the template's
   order (byTemplate) or in the node's own key order, that does not pass;
   when all pass, the first section in the template's order that does not *)
RECURSIVE NodeOutcome(_, _, _)
NodeOutcome(tpl, node, byTemplate) ==
    LET order == IF byTemplate THEN DeclaredKeywordNames(tpl) ELSE KeywordKeys(node)
        failing == SelectSeq(order, LAMBDA k : KeywordOutcome(tpl, node, k) # Passes)
        secs == DeclaredSections(tpl)
        badSecs == {i \in DOMAIN secs :
                       NodeOutcome(secs[i], Get(node, secs[i].section), byTemplate) # Passes}
    IN  IF failing # <<>> THEN KeywordOutcome(tpl, node, failing[1])
        ELSE IF badSecs = {} THEN Passes
        ELSE LET i == CHOOSE i \in badSecs : \A j \in badSecs : i <= j
             IN  NodeOutcome(secs[i], Get(node, secs[i].section), byTemplate)

Outcome(byTemplate) == NodeOutcome(template_dict, input_dict, byTemplate)

(* C12 as stated: the error raised by check_predicates_node is that of the
   first failing keyword in the template's declaration order, whatever the key
   order of the merged node, sections being visited after the keywords in
   template order *)
C12_TemplateOrderDecides ==
    op = "check_predicates_node" => ret = Outcome(TRUE)

(* C12 amended: the error raised is that of the first failing keyword in the
   key order of the merged node, and its first failing predicate in
   declaration order; the sections are visited after all keywords of the
   node, in template order *)
C12_NodeOrderDecides ==
    op = "check_predicates_node" => ret = Outcome(FALSE)

(* both keywords of the node fail a predicate, the template declares a
   before b, the node holds b before a, a section fails as well: the error is
   the one of b *)
C12_Witness ==
    /\ op = "check_predicates_node"
    /\ DeclaredKeywordNames(template_dict) = <<"a", "b">>
    /\ KeywordKeys(input_dict) = <<"b", "a">>
    /\ KeywordOutcome(template_dict, input_dict, "a") # Passes
    /\ KeywordOutcome(template_dict, input_dict, "b") # Passes
    /\ Keys(input_dict) = <<"b", "a", "t", "s">>
    /\ ret = Raise("InputError", <<"predicate failed", "value > 0", "b">>)

(* the leaf keywords of a tree with their declared tags, in traversal order *)
RECURSIVE LeafSeq(_, _, _, _)
LeafSeq(tree, typesTree, address, i) ==
    IF i > Len(Items(tree)) THEN <<>>
    ELSE LET k == Items(tree)[i][1]
             v == Items(tree)[i][2]
         IN  (IF TypeName(v) = "dict"
              THEN LeafSeq(v, typesTree[k], Append(address, k), 1)
              ELSE <<[address |-> Append(address, k), k |-> k, v |-> v,
                      declared |-> typesTree[k]]>>) \o
             LeafSeq(tree, typesTree, address, i + 1)

(* the errors owed to the leaves: one for each leaf that has no value or
   whose type does not agree with its tag, in traversal order *)
OwedErrors(tree, typesTree) ==
    LET bad == SelectSeq(LeafSeq(tree, typesTree, <<>>, 1),
                         LAMBDA l : l.v = PyNone \/ ~Agrees(l.v, l.declared))
    IN  [i \in DOMAIN bad |->
            IF bad[i].v = PyNone
            THEN <<bad[i].address, <<"is required but has no value", bad[i].k>> >>
            ELSE <<bad[i].address, <<"Actual and declared types do not match",
                                     TypeName(bad[i].v), bad[i].declared>> >>]

(* the same keys, in the same order, with mappings where a has mappings *)
RECURSIVE SameShape(_, _)
SameShape(a, b) ==
    /\ TypeName(a) = "dict" /\ TypeName(b) = "dict"
    /\ Keys(a) = Keys(b)
    /\ \A k \in KeySet(a) :
          IF TypeName(Get(a, k)) = "dict" THEN SameShape(Get(a, k), Get(b, k))
          ELSE TypeName(Get(b, k)) # "dict"

(* every leaf that has a value has one of the ten tags *)
TagsRecognized ==
    \A leaf \in Leaves(input_dict, types, <<>>) :
        leaf.v # PyNone => leaf.declared \in TenTags

AllLeavesReported ==
    /\ op \in RecTypenadeOps =>
          /\ Returned(ret)
          /\ SameShape(input_dict, ret.outgoing)
          /\ ret.errors = OwedErrors(input_dict, types)
    /\ op = "typenade" =>
          IF OwedErrors(input_dict, types) = <<>>
          THEN Returned(ret) /\ SameShape(input_dict, ret.val)
          ELSE ret = Raise("ParselglossyError",
                           <<"checking types", OwedErrors(input_dict, types)>>)

(* C13 as stated: for every incoming tree with a types tree of the same shape
   rec_typenade returns an outgoing tree with the keys and nesting of the
   incoming one and exactly one error for each leaf that is None or does not
   match its tag, in traversal order; typenade returns the outgoing tree when
   there is no error and raises otherwise *)
C13_NeverStops ==
    (scenario = "typenade" /\ pc = "done") =>
        /\ (op \in RecTypenadeOps => Returned(ret))
        /\ (op = "typenade" => ret.exc \in {"none", "ParselglossyError"})
        /\ AllLeavesReported

(* C13 amended: the same, for types trees whose tags (of the leaves that have
   a value) are among the ten; with another tag on such a leaf rec_typenade
   and typenade stop with the ValueError of type_matches *)
C13_NeverStopsOnRecognizedTags ==
    (scenario = "typenade" /\ pc = "done") =>
        IF TagsRecognized THEN AllLeavesReported ELSE ret.exc = "ValueError"

(* rec_typenade has gone through a tree with three faulty leaves, one of them
   in a section, and reports all three *)
C13_Witness ==
    /\ op = "rec_typenade fixate" /\ Returned(ret)
    /\ Len(ret.errors) = 3
    /\ ret.errors[3][1] = <<"s", "a">>
    /\ \E i \in DOMAIN ret.errors : ret.errors[i][2][1] = "is required but has no value"
    /\ \E i \in DOMAIN ret.errors :
          ret.errors[i][2][1] = "Actual and declared types do not match"

(* the input holds a mapping for every section the template declares and
   nothing the template does not declare *)
MatchesSections(input, tpl) ==
    /\ UnexpectedKeywords(input, tpl) = {}
    /\ UnexpectedSections(input, tpl) = {}
    /\ \A name \in SectionNamesOf(tpl) :
          Has(input, name) /\ TypeName(Get(input, name)) = "dict"

(* C14: for a template node without a 'keywords' entry, declaring sections
   only or nothing at all, and an input that matches it, validate_node ends
   with an InputError, a TemplateError or a merged node, never with another
   failure *)
C14_MissingKeywordsIsEmptyList ==
    (/\ op = "validate_node"
     /\ "keywords" \notin DOMAIN template_dict
     /\ MatchesSections(input0, template_dict)) =>
        ret.exc \in {"none", "InputError", "TemplateError"}

====
